---- MODULE Spec2Model ----
(***************************************************************************)
(* DiarizationEngine (frontend/src-tauri/python/diarization_engine.py).    *)
(*                                                                         *)
(* One engine instance serves a sequence of process_audio (full file) and  *)
(* process_audio_chunk (streaming chunk) calls.  The engine is single      *)
(* threaded: a call runs to its return before the next one starts.  Each   *)
(* call is modelled step by step: the part before the turn loop, one step  *)
(* per turn yielded by diarization.itertracks, and the return.             *)
(*                                                                         *)
(* Times are counted in ticks of 1/TicksPerSecond second; with the tick a  *)
(* binary fraction of a second, every product time * sample_rate below is  *)
(* exact in the code's floating point, so the integer arithmetic here is   *)
(* the code's arithmetic.                                                  *)
(***************************************************************************)
EXTENDS Integers, Sequences, FiniteSets, TLC

\* ------------------------------------------------------------------ bounds

\* Turns one call's diarization yields at most.
MaxTurns == 2

\* Resolution of the time axis: ticks per second.
TicksPerSecond == 4

\* ------------------------------------------------------------------ inputs

\* Opaque speaker tokens of the diarization model.
Speakers == {"SPEAKER_00", "SPEAKER_01", "SPEAKER_02"}

\* sample_rate argument (samples per second).
SampleRates == {3, 4}

\* min_segment_duration argument, in ticks (a negative floor, 0.25 s and
\* the default 1.0 s).
MinDurations == {-1, 1, 4}

\* Sample count of the buffer the diarization model is run on.
SampleCounts == {4}

\* chunk_index argument of process_audio_chunk.
ChunkIndices == {0, 2}

\* (start, end) of a turn, in ticks: a one second turn, a quarter second
\* turn, a turn ending beyond the buffer, a turn wholly beyond the buffer
\* and a turn that ends before it starts.
TurnTimes == {<<0, 4>>, <<1, 2>>, <<1, 6>>, <<5, 6>>, <<5, 4>>}

\* What diarization.itertracks(yield_label=True) can yield next.
YieldedTurns ==
    {[start |-> tt[1], end |-> tt[2], speaker |-> s] :
        tt \in TurnTimes, s \in Speakers}

\* Where an exception can be raised before the turn loop of process_audio.
EarlyStages == {"load", "resample", "pipeline"}

\* ------------------------------------------------------------------- state

VARIABLES
    pc,                   \* "idle", "file_loop", "chunk_loop", "done"
    mode,                 \* "none", "file", "chunk": the call in progress or last returned
    sample_rate,          \* argument of the call
    min_segment_duration, \* argument of process_audio (ticks)
    chunk_index,          \* argument of process_audio_chunk
    nsamples,             \* waveform.shape[1]
    turns,                \* the turns itertracks has yielded so far in this call
    segments,             \* local: segments
    speaker_labels,       \* local: speaker_labels (process_audio only)
    speaker_counter,      \* local: speaker_counter (process_audio only)
    embed_calls,          \* log of this call's _extract_embedding invocations
    diar_calls,           \* number of self.pipeline(...) invocations of this call
    result,               \* the returned document
    raised,               \* "none", or where this call's exception was raised
    prev                  \* "none", "ok", "failed": how the call before this one ended

vars == <<pc, mode, sample_rate, min_segment_duration, chunk_index, nsamples,
          turns, segments, speaker_labels, speaker_counter, embed_calls,
          diar_calls, result, raised, prev>>

\* ----------------------------------------------------------------- helpers

Max(a, b) == IF a >= b THEN a ELSE b

Min(a, b) == IF a <= b THEN a ELSE b

\* Python int() of the rational num/den (den > 0): truncation toward zero.
PyInt(num, den) == IF num >= 0 THEN num \div den ELSE -((-num) \div den)

\* Variant of ToSampleIndex: round(t * sample_rate), halves rounded up.
ToSampleIndexRounded(t, rate) ==
    (2 * t * rate + TicksPerSecond) \div (2 * TicksPerSecond)

\* int(t * sample_rate) for a time of t ticks.
ToSampleIndex(t, rate) == PyInt(t * rate, TicksPerSecond)

\* A slice bound as Python/torch slicing resolves it against a length.
SliceBound(i, n) == IF i < 0 THEN Max(i + n, 0) ELSE Min(i, n)

\* Variant of SliceLen: the range taken as given, not resolved against n.
SliceLenUnclamped(lo, hi, n) == hi - lo

\* waveform[:, lo:hi].shape[1] for a buffer of n samples.
SliceLen(lo, hi, n) == Max(SliceBound(hi, n) - SliceBound(lo, n), 0)

\* Variant of MinSamples: 0.5 * sample_rate rounded up.
MinSamplesCeil(rate) == (rate + 1) \div 2

\* min_samples = int(0.5 * sample_rate)
MinSamples(rate) == PyInt(rate, 2)

\* Sample count of the waveform after the padding step of _extract_embedding.
PaddedLen(len, rate) ==
    IF len < MinSamples(rate) THEN len + (MinSamples(rate) - len) ELSE len

\* _extract_embedding: the flattened vector of the embedding model, or None
\* when the model raised.  The vector is abstracted to the sample count the
\* model was handed.
ExtractEmbedding(len, rate, model_ok) ==
    IF model_ok
    THEN [none |-> FALSE, vec |-> <<PaddedLen(len, rate)>>]
    ELSE [none |-> TRUE, vec |-> <<>>]

\* Variant of EmbeddingField: a zero vector stands for a missing embedding.
EmbeddingFieldZeroVector(embedding) ==
    IF embedding.none THEN <<0>> ELSE embedding.vec

\* embedding.tolist() if embedding is not None else []
EmbeddingField(embedding) ==
    IF embedding.none THEN <<>> ELSE embedding.vec

\* f"Speaker {speaker_counter}"
SpeakerLabel(n) == "Speaker " \o ToString(n)

\* The empty label map.
EmptyLabels == [s \in {} |-> ""]

\* Variant of FreshLabels: the map is kept on the engine between calls.
StaleLabels == speaker_labels

\* speaker_labels = {}
FreshLabels == EmptyLabels

\* speaker_counter = 1
FreshCounter == 1

\* Variant of AssignLabel: the label is assigned on every turn.
AssignLabelAlways(labels, counter, speaker) ==
    [s \in DOMAIN labels \cup {speaker} |->
        IF s = speaker THEN SpeakerLabel(counter) ELSE labels[s]]

\* if speaker not in speaker_labels: speaker_labels[speaker] = ...
AssignLabel(labels, counter, speaker) ==
    IF speaker \notin DOMAIN labels
    THEN [s \in DOMAIN labels \cup {speaker} |->
             IF s = speaker THEN SpeakerLabel(counter) ELSE labels[s]]
    ELSE labels

\* Variant of NextCounter: the counter is incremented on every turn.
NextCounterEveryTurn(labels, counter, speaker) == counter + 1

\* ... speaker_counter += 1
NextCounter(labels, counter, speaker) ==
    IF speaker \notin DOMAIN labels THEN counter + 1 ELSE counter

\* Variant of KeepsTurn: the duration test is missing.
KeepsTurnAlways(duration, min_duration) == TRUE

\* Variant of KeepsTurn: a turn of exactly the minimum is dropped too.
KeepsTurnStrict(duration, min_duration) == duration > min_duration

\* if duration < min_segment_duration: continue
KeepsTurn(duration, min_duration) == ~(duration < min_duration)

\* The segment process_audio appends.
FileSegment(label, turn, embedding) ==
    [speaker_label |-> label,
     start_time |-> turn.start,
     end_time |-> turn.end,
     duration |-> turn.end - turn.start,
     confidence |-> 1,
     embedding |-> EmbeddingField(embedding)]

\* Variant of ChunkSegment: a display label instead of the raw token.
ChunkSegmentMapped(turn, embedding) ==
    [speaker_label |-> SpeakerLabel(1),
     start_time |-> turn.start,
     end_time |-> turn.end,
     confidence |-> 1,
     embedding |-> EmbeddingField(embedding)]

\* The segment process_audio_chunk appends.
ChunkSegment(turn, embedding) ==
    [speaker_label |-> turn.speaker,
     start_time |-> turn.start,
     end_time |-> turn.end,
     confidence |-> 1,
     embedding |-> EmbeddingField(embedding)]

\* The entry logged for one _extract_embedding invocation.
EmbedCall(turn, rate, n, model_ok) ==
    LET lo == ToSampleIndex(turn.start, rate)
        hi == ToSampleIndex(turn.end, rate)
        len == SliceLen(lo, hi, n)
    IN  [turn |-> turn, lo |-> lo, hi |-> hi, in_len |-> len,
         model_len |-> PaddedLen(len, rate), ok |-> model_ok]

\* str(e)
ErrorMessage(stage) == "error in " \o stage

\* No document returned yet.
NoResult == [pending |-> TRUE]

\* The success document of process_audio.
SuccessResult(segs, labels, n, rate) ==
    [success |-> TRUE,
     segments |-> segs,
     num_speakers |-> Cardinality(DOMAIN labels),
     total_duration |-> [samples |-> n, per_second |-> rate],
     sample_rate |-> rate]

\* Variant of FailureResult: the segments built so far are returned.
FailureResultPartial(message, segs) ==
    [success |-> FALSE, error |-> message, segments |-> segs]

\* Variant of FailureResult: the success document's fields are all present.
FailureResultFullShape(message, segs) ==
    [success |-> FALSE, error |-> message, segments |-> <<>>,
     num_speakers |-> 0,
     total_duration |-> [samples |-> 0, per_second |-> 1],
     sample_rate |-> 0]

\* The failure document of process_audio; segs are the segments built so
\* far, which the handler leaves out.
FailureResult(message, segs) ==
    [success |-> FALSE, error |-> message, segments |-> <<>>]

\* The success document of process_audio_chunk.
ChunkSuccessResult(index, segs) ==
    [success |-> TRUE, chunk_index |-> index, segments |-> segs]

\* The failure document of process_audio_chunk.
ChunkFailureResult(message, segs) ==
    [success |-> FALSE, error |-> message, segments |-> <<>>]

\* How the call that has just returned ended.
Outcome ==
    IF pc = "done"
    THEN (IF result.success THEN "ok" ELSE "failed")
    ELSE prev

\* -------------------------------------------------------------------- Init

Init ==
    /\ pc = "idle"
    /\ mode = "none"
    /\ sample_rate = 0
    /\ min_segment_duration = 0
    /\ chunk_index = 0
    /\ nsamples = 0
    /\ turns = <<>>
    /\ segments = <<>>
    /\ speaker_labels = EmptyLabels
    /\ speaker_counter = 1
    /\ embed_calls = <<>>
    /\ diar_calls = 0
    /\ result = NoResult
    /\ raised = "none"
    /\ prev = "none"

\* ----------------------------------------------------------- process_audio

\* Lines 107-132: load, resample, fold to mono, run the pipeline once, and
\* set up the locals of the turn loop.
ProcessAudioBegin ==
    /\ pc \in {"idle", "done"}
    /\ \E rate \in SampleRates, min_duration \in MinDurations, n \in SampleCounts :
          /\ sample_rate' = rate
          /\ min_segment_duration' = min_duration
          /\ nsamples' = n
    /\ prev' = Outcome
    /\ mode' = "file"
    /\ chunk_index' = 0
    /\ diar_calls' = 1
    /\ turns' = <<>>
    /\ segments' = <<>>
    /\ speaker_labels' = FreshLabels
    /\ speaker_counter' = FreshCounter
    /\ embed_calls' = <<>>
    /\ result' = NoResult
    /\ raised' = "none"
    /\ pc' = "file_loop"

\* Lines 107-127 raising (torchaudio.load, the resampler or the pipeline),
\* caught at line 169.
ProcessAudioRaiseEarly ==
    /\ pc \in {"idle", "done"}
    /\ \E rate \in SampleRates, min_duration \in MinDurations, stage \in EarlyStages :
          /\ sample_rate' = rate
          /\ min_segment_duration' = min_duration
          /\ diar_calls' = IF stage = "pipeline" THEN 1 ELSE 0
          /\ result' = FailureResult(ErrorMessage(stage), <<>>)
          /\ raised' = stage
    /\ prev' = Outcome
    /\ mode' = "file"
    /\ chunk_index' = 0
    /\ nsamples' = 0
    /\ turns' = <<>>
    /\ segments' = <<>>
    /\ speaker_labels' = EmptyLabels
    /\ speaker_counter' = 1
    /\ embed_calls' = <<>>
    /\ pc' = "done"

\* Lines 134-156: one iteration of the turn loop.
ProcessAudioTurn ==
    /\ pc = "file_loop"
    /\ Len(turns) < MaxTurns
    /\ \E turn \in YieldedTurns, model_ok \in BOOLEAN :
          LET labels == AssignLabel(speaker_labels, speaker_counter, turn.speaker)
              duration == turn.end - turn.start
              call == EmbedCall(turn, sample_rate, nsamples, model_ok)
              embedding == ExtractEmbedding(call.in_len, sample_rate, model_ok)
          IN  /\ turns' = Append(turns, turn)
              /\ speaker_labels' = labels
              /\ speaker_counter' =
                    NextCounter(speaker_labels, speaker_counter, turn.speaker)
              /\ IF KeepsTurn(duration, min_segment_duration)
                 THEN /\ embed_calls' = Append(embed_calls, call)
                      /\ segments' = Append(segments,
                            FileSegment(labels[turn.speaker], turn, embedding))
                 ELSE UNCHANGED <<embed_calls, segments>>
    /\ UNCHANGED <<pc, mode, sample_rate, min_segment_duration, chunk_index,
                   nsamples, diar_calls, result, raised, prev>>

\* An exception raised inside the turn loop (by the iterator or while a
\* segment is built), caught at line 169.
ProcessAudioTurnRaise ==
    /\ pc = "file_loop"
    /\ result' = FailureResult(ErrorMessage("loop"), segments)
    /\ raised' = "loop"
    /\ pc' = "done"
    /\ UNCHANGED <<mode, sample_rate, min_segment_duration, chunk_index,
                   nsamples, turns, segments, speaker_labels, speaker_counter,
                   embed_calls, diar_calls, prev>>

\* Lines 158-167: the iterator is exhausted.
ProcessAudioReturn ==
    /\ pc = "file_loop"
    /\ result' = SuccessResult(segments, speaker_labels, nsamples, sample_rate)
    /\ pc' = "done"
    /\ UNCHANGED <<mode, sample_rate, min_segment_duration, chunk_index,
                   nsamples, turns, segments, speaker_labels, speaker_counter,
                   embed_calls, diar_calls, raised, prev>>

\* ----------------------------------------------------- process_audio_chunk

\* Lines 227-236: tensor conversion, the pipeline run, segments = [].
ProcessChunkBegin ==
    /\ pc \in {"idle", "done"}
    /\ \E rate \in SampleRates, index \in ChunkIndices, n \in SampleCounts :
          /\ sample_rate' = rate
          /\ chunk_index' = index
          /\ nsamples' = n
    /\ prev' = Outcome
    /\ mode' = "chunk"
    /\ min_segment_duration' = 0
    /\ diar_calls' = 1
    /\ turns' = <<>>
    /\ segments' = <<>>
    /\ speaker_labels' = EmptyLabels
    /\ speaker_counter' = 1
    /\ embed_calls' = <<>>
    /\ result' = NoResult
    /\ raised' = "none"
    /\ pc' = "chunk_loop"

\* Lines 237-249: one iteration of the chunk's turn loop.
ProcessChunkTurn ==
    /\ pc = "chunk_loop"
    /\ Len(turns) < MaxTurns
    /\ \E turn \in YieldedTurns, model_ok \in BOOLEAN :
          LET call == EmbedCall(turn, sample_rate, nsamples, model_ok)
              embedding == ExtractEmbedding(call.in_len, sample_rate, model_ok)
          IN  /\ turns' = Append(turns, turn)
              /\ embed_calls' = Append(embed_calls, call)
              /\ segments' = Append(segments, ChunkSegment(turn, embedding))
    /\ UNCHANGED <<pc, mode, sample_rate, min_segment_duration, chunk_index,
                   nsamples, speaker_labels, speaker_counter, diar_calls,
                   result, raised, prev>>

\* An exception raised in lines 229-249 (the pipeline or the loop), caught
\* at line 257.
ProcessChunkRaise ==
    /\ \/ /\ pc \in {"idle", "done"}
          /\ \E rate \in SampleRates, index \in ChunkIndices :
                /\ sample_rate' = rate
                /\ chunk_index' = index
          /\ prev' = Outcome
          /\ mode' = "chunk"
          /\ min_segment_duration' = 0
          /\ nsamples' = 0
          /\ diar_calls' = 1
          /\ turns' = <<>>
          /\ segments' = <<>>
          /\ speaker_labels' = EmptyLabels
          /\ speaker_counter' = 1
          /\ embed_calls' = <<>>
          /\ result' = ChunkFailureResult(ErrorMessage("pipeline"), <<>>)
          /\ raised' = "pipeline"
       \/ /\ pc = "chunk_loop"
          /\ result' = ChunkFailureResult(ErrorMessage("loop"), segments)
          /\ raised' = "loop"
          /\ UNCHANGED <<mode, sample_rate, min_segment_duration, chunk_index,
                         nsamples, turns, segments, speaker_labels,
                         speaker_counter, embed_calls, diar_calls, prev>>
    /\ pc' = "done"

\* Lines 251-255: the iterator is exhausted.
ProcessChunkReturn ==
    /\ pc = "chunk_loop"
    /\ result' = ChunkSuccessResult(chunk_index, segments)
    /\ pc' = "done"
    /\ UNCHANGED <<mode, sample_rate, min_segment_duration, chunk_index,
                   nsamples, turns, segments, speaker_labels, speaker_counter,
                   embed_calls, diar_calls, raised, prev>>

\* ----------------------------------------------------------- specification

Next ==
    \/ ProcessAudioBegin
    \/ ProcessAudioRaiseEarly
    \/ ProcessAudioTurn
    \/ ProcessAudioTurnRaise
    \/ ProcessAudioReturn
    \/ ProcessChunkBegin
    \/ ProcessChunkTurn
    \/ ProcessChunkRaise
    \/ ProcessChunkReturn

Spec == Init /\ [][Next]_vars

\* ------------------------------------------------- what the claims speak of

\* The distinct speaker tokens of a turn sequence, in order of first appearance.
RECURSIVE FirstSeen(_)
FirstSeen(ts) ==
    IF ts = <<>>
    THEN <<>>
    ELSE LET before == FirstSeen(SubSeq(ts, 1, Len(ts) - 1))
             s == ts[Len(ts)].speaker
         IN  IF \E k \in 1..Len(before) : before[k] = s
             THEN before
             ELSE Append(before, s)

\* Position of a speaker token among the distinct tokens of ts.
Rank(s, ts) == CHOOSE k \in 1..Len(FirstSeen(ts)) : FirstSeen(ts)[k] = s

\* The turns at least min_duration long, in yield order.
Survivors(ts, min_duration) ==
    SelectSeq(ts, LAMBDA t : t.end - t.start >= min_duration)

SpeakersOf(ts) == {ts[i].speaker : i \in 1..Len(ts)}

InFileCall == mode = "file" /\ pc \in {"file_loop", "done"}

InChunkCall == mode = "chunk" /\ pc \in {"chunk_loop", "done"}

Returned == pc = "done"

\* -------------------------------------------------------------------- C1

\* C1: in process_audio the k-th distinct speaker_id in order of first
\* appearance among the yielded turns is mapped to "Speaker k", whatever the
\* token's value, and every emitted segment carries the label of its turn's
\* speaker.
C1_LabelsFollowFirstAppearance ==
    InFileCall =>
        LET order == FirstSeen(turns)
            kept == Survivors(turns, min_segment_duration)
        IN  /\ DOMAIN speaker_labels = {order[k] : k \in 1..Len(order)}
            /\ \A k \in 1..Len(order) :
                  speaker_labels[order[k]] = SpeakerLabel(k)
            /\ Len(segments) = Len(kept)
            /\ \A j \in 1..Len(segments) :
                  segments[j].speaker_label =
                      SpeakerLabel(Rank(kept[j].speaker, turns))
            /\ (Returned /\ raised = "none") => result.segments = segments

\* A successful call whose first speaker token sorts after its second one.
C1_Witness ==
    /\ InFileCall /\ Returned /\ raised = "none"
    /\ Len(turns) = 2
    /\ turns[1].speaker = "SPEAKER_02"
    /\ turns[2].speaker = "SPEAKER_00"
    /\ Len(result.segments) = 2
    /\ result.segments[1].speaker_label = "Speaker 1"
    /\ result.segments[2].speaker_label = "Speaker 2"

\* -------------------------------------------------------------------- C2

\* C2: process_audio emits no segment for a turn shorter than
\* min_segment_duration, so every emitted segment is at least that long, but
\* num_speakers counts the distinct speaker_ids of all yielded turns, the
\* filtered ones included.
C2_ShortTurnsDroppedSpeakersCounted ==
    InFileCall =>
        LET long == {i \in 1..Len(turns) :
                        ~(turns[i].end - turns[i].start < min_segment_duration)}
            kept == Survivors(turns, min_segment_duration)
        IN  /\ Len(segments) = Cardinality(long)
            /\ \A j \in 1..Len(segments) :
                  /\ segments[j].duration >= min_segment_duration
                  /\ segments[j].start_time = kept[j].start
                  /\ segments[j].end_time = kept[j].end
            /\ (Returned /\ raised = "none") =>
                  /\ result.success
                  /\ result.segments = segments
                  /\ result.num_speakers = Cardinality(SpeakersOf(turns))

\* A successful call with a speaker whose only turn was filtered out.
C2_Witness ==
    /\ InFileCall /\ Returned /\ raised = "none"
    /\ Len(turns) = 2
    /\ turns[1].speaker # turns[2].speaker
    /\ turns[2].end - turns[2].start < min_segment_duration
    /\ Len(result.segments) = 1
    /\ result.num_speakers = 2

\* -------------------------------------------------------------------- C3

\* C3: an exception raised anywhere in process_audio does not escape: the
\* call returns success=false with an error message and segments=[], and
\* segments built before the failure are not returned.
C3_ExceptionBecomesEmptyFailure ==
    (mode = "file" /\ raised # "none") =>
        /\ Returned
        /\ result.success = FALSE
        /\ "error" \in DOMAIN result
        /\ result.error = ErrorMessage(raised)
        /\ result.segments = <<>>

\* The loop raised after a segment had been built.
C3_Witness ==
    /\ mode = "file" /\ Returned /\ raised = "loop"
    /\ Len(segments) > 0
    /\ result.segments = <<>>
    /\ result.success = FALSE

\* -------------------------------------------------------------------- C4

\* C4: when the embedding model fails for a turn that passed the duration
\* filter, the segment is still appended with an empty embedding sequence,
\* the remaining turns are processed and the result stays success=true.
C4_EmbeddingFailureKeepsSegment ==
    InFileCall =>
        LET kept == Survivors(turns, min_segment_duration)
        IN  /\ Len(embed_calls) = Len(kept)
            /\ Len(segments) = Len(kept)
            /\ \A j \in 1..Len(segments) :
                  /\ embed_calls[j].turn = kept[j]
                  /\ segments[j].start_time = kept[j].start
                  /\ segments[j].end_time = kept[j].end
                  /\ ~embed_calls[j].ok => segments[j].embedding = <<>>
                  /\ embed_calls[j].ok => segments[j].embedding # <<>>
            /\ (Returned /\ raised = "none") =>
                  /\ result.success
                  /\ result.segments = segments

\* The embedding of the first of two surviving turns failed.
C4_Witness ==
    /\ InFileCall /\ Returned /\ raised = "none"
    /\ Len(embed_calls) = 2
    /\ ~embed_calls[1].ok
    /\ embed_calls[2].ok
    /\ result.success
    /\ Len(result.segments) = 2
    /\ result.segments[1].embedding = <<>>
    /\ result.segments[2].embedding # <<>>

\* -------------------------------------------------------------------- C5

\* C5 as stated: a waveform of fewer than 0.5*R samples is handed to the
\* embedding model with exactly 0.5*R samples, a longer one unchanged.
C5_PadsToExactlyHalfRate ==
    \A j \in 1..Len(embed_calls) :
        LET c == embed_calls[j]
        IN  /\ 2 * c.in_len < sample_rate => 2 * c.model_len = sample_rate
            /\ 2 * c.in_len >= sample_rate => c.model_len = c.in_len

\* C5, amended: with floor the largest whole sample count not above 0.5*R
\* (int(0.5*R)), a waveform of fewer than floor samples is handed to the
\* embedding model with exactly floor samples, a waveform of floor samples or
\* more with its length unchanged, and the model is invoked for every
\* surviving turn.
C5_PadsToTruncatedHalfRate ==
    LET floor == CHOOSE m \in 0..sample_rate :
                     2 * m <= sample_rate /\ sample_rate < 2 * (m + 1)
    IN  /\ \A j \in 1..Len(embed_calls) :
              LET c == embed_calls[j]
              IN  /\ c.in_len < floor => c.model_len = floor
                  /\ c.in_len >= floor => c.model_len = c.in_len
        /\ InFileCall =>
              Len(embed_calls) = Len(Survivors(turns, min_segment_duration))
        /\ InChunkCall => Len(embed_calls) = Len(turns)

\* An empty slice at an odd sample rate is padded to int(0.5*R) samples.
C5_Witness ==
    /\ sample_rate = 3
    /\ \E j \in 1..Len(embed_calls) :
          /\ embed_calls[j].in_len = 0
          /\ embed_calls[j].model_len = 1

\* -------------------------------------------------------------------- C6

\* The fields of the success document of the call's mode.
SuccessFields ==
    IF mode = "file"
    THEN DOMAIN SuccessResult(<<>>, EmptyLabels, 1, 1)
    ELSE DOMAIN ChunkSuccessResult(0, <<>>)

\* C6 as stated: the failure document of a mode carries the fields of that
\* mode's success document plus error.
C6_FailureHasSuccessFields ==
    (Returned /\ raised # "none") =>
        DOMAIN result = SuccessFields \cup {"error"}

\* C6, amended: in both modes the failure document carries exactly success
\* (false), error and segments (empty); of the success document's fields it
\* keeps success and segments, and num_speakers, total_duration and
\* sample_rate (full file) or chunk_index (chunk) are absent.
C6_FailureHasThreeFields ==
    Returned =>
        IF raised # "none"
        THEN /\ DOMAIN result = {"success", "error", "segments"}
             /\ result.success = FALSE
             /\ result.segments = <<>>
             /\ {"success", "segments"} \subseteq SuccessFields
        ELSE /\ DOMAIN result = SuccessFields
             /\ result.success

\* A failed chunk call: its document does not echo chunk_index.
C6_Witness ==
    /\ mode = "chunk" /\ Returned /\ raised = "loop"
    /\ chunk_index = 2
    /\ "chunk_index" \notin DOMAIN result
    /\ "error" \in DOMAIN result

\* -------------------------------------------------------------------- C7

\* A logged slice reaches outside a buffer of n samples.
OutOfRange(c, n) == c.lo > n \/ c.hi > n \/ c.hi < c.lo

\* C7 as stated: a surviving turn whose sample range lies outside the buffer
\* makes process_audio return success=false with segments=[].
C7_OutOfRangeTurnFailsCall ==
    (InFileCall /\ Returned
       /\ \E j \in 1..Len(embed_calls) : OutOfRange(embed_calls[j], nsamples)) =>
        /\ result.success = FALSE
        /\ result.segments = <<>>

\* C7, amended: process_audio neither clamps nor rejects a surviving turn
\* whose sample range lies outside the buffer; the slice operation silently
\* truncates the range to the buffer (to nothing when the range is wholly
\* outside or reversed), _extract_embedding is still called on it, and the
\* segment is emitted with the turn's own times in a success=true result.
C7_OutOfRangeSliceIsTruncated ==
    InFileCall =>
        /\ Len(segments) = Len(embed_calls)
        /\ \A j \in 1..Len(embed_calls) :
              LET c == embed_calls[j]
                  lo == IF c.lo > nsamples THEN nsamples ELSE c.lo
                  hi == IF c.hi > nsamples THEN nsamples ELSE c.hi
              IN  /\ c.lo >= 0 /\ c.hi >= 0
                  /\ c.in_len = IF hi > lo THEN hi - lo ELSE 0
                  /\ segments[j].start_time = c.turn.start
                  /\ segments[j].end_time = c.turn.end
        /\ (Returned /\ raised = "none") =>
              /\ result.success
              /\ result.segments = segments

\* A successful call with a truncated slice and an empty reversed slice.
C7_Witness ==
    /\ InFileCall /\ Returned /\ result.success
    /\ Len(result.segments) = 2
    /\ embed_calls[1].hi > nsamples
    /\ embed_calls[1].in_len = nsamples - embed_calls[1].lo
    /\ embed_calls[1].in_len > 0
    /\ embed_calls[2].hi < embed_calls[2].lo
    /\ embed_calls[2].in_len = 0
    /\ result.segments[2].end_time < result.segments[2].start_time

\* -------------------------------------------------------------------- C8

\* k is a sample index nearest to the time of t ticks.
Nearest(k, t) ==
    LET d == k * TicksPerSecond - t * sample_rate
    IN  2 * (IF d >= 0 THEN d ELSE -d) <= TicksPerSecond

\* C8 as stated: both bounds of the slice handed to the extractor are the
\* turn's times multiplied by the sample rate and rounded to the nearest
\* sample index.
C8_SliceBoundsRounded ==
    \A j \in 1..Len(embed_calls) :
        /\ Nearest(embed_calls[j].lo, embed_calls[j].turn.start)
        /\ Nearest(embed_calls[j].hi, embed_calls[j].turn.end)

\* k is the time of t ticks in samples with its fractional part dropped.
Truncated(k, t) ==
    /\ k * TicksPerSecond <= t * sample_rate
    /\ t * sample_rate < (k + 1) * TicksPerSecond

\* C8, amended: both bounds of the slice handed to the extractor are the
\* turn's (non-negative) times multiplied by the sample rate with the
\* fractional part dropped (int()), also when that part is 0.5 or more.
C8_SliceBoundsTruncated ==
    \A j \in 1..Len(embed_calls) :
        /\ Truncated(embed_calls[j].lo, embed_calls[j].turn.start)
        /\ Truncated(embed_calls[j].hi, embed_calls[j].turn.end)

\* A slice whose start has a fractional part of one half or more.
C8_Witness ==
    \E j \in 1..Len(embed_calls) :
        LET c == embed_calls[j]
        IN  /\ 2 * ((c.turn.start * sample_rate) % TicksPerSecond) >= TicksPerSecond
            /\ c.lo * TicksPerSecond < c.turn.start * sample_rate
            /\ ~Nearest(c.lo, c.turn.start)

\* -------------------------------------------------------------------- C9

\* The segments process_audio returns, as a function of the call's own
\* arguments, yielded turns and embedding outcomes.
ExpectedSegments ==
    LET kept == Survivors(turns, min_segment_duration)
    IN  [j \in 1..Len(kept) |->
            LET lo == (kept[j].start * sample_rate) \div TicksPerSecond
                hi == (kept[j].end * sample_rate) \div TicksPerSecond
                len == Max(Min(hi, nsamples) - Min(lo, nsamples), 0)
            IN  [speaker_label |-> SpeakerLabel(Rank(kept[j].speaker, turns)),
                 start_time |-> kept[j].start,
                 end_time |-> kept[j].end,
                 duration |-> kept[j].end - kept[j].start,
                 confidence |-> 1,
                 embedding |-> IF embed_calls[j].ok
                               THEN <<Max(len, sample_rate \div 2)>>
                               ELSE <<>>]]

\* C9: no label map or segment list carries over between calls on one
\* engine: every call starts its loop with an empty label map, the counter
\* at 1 and no segments, and what a call returns is a function of its own
\* arguments and model outputs only.
C9_NothingCarriesOver ==
    /\ (pc \in {"file_loop", "chunk_loop"} /\ turns = <<>>) =>
          /\ speaker_labels = EmptyLabels
          /\ speaker_counter = 1
          /\ segments = <<>>
          /\ embed_calls = <<>>
    /\ InFileCall =>
          /\ DOMAIN speaker_labels = SpeakersOf(turns)
          /\ speaker_counter = Cardinality(SpeakersOf(turns)) + 1
          /\ Len(embed_calls) = Len(Survivors(turns, min_segment_duration))
          /\ segments = ExpectedSegments
    /\ (InFileCall /\ Returned /\ raised = "none") =>
          result = [success |-> TRUE,
                    segments |-> ExpectedSegments,
                    num_speakers |-> Cardinality(SpeakersOf(turns)),
                    total_duration |->
                        [samples |-> nsamples, per_second |-> sample_rate],
                    sample_rate |-> sample_rate]
    /\ (InFileCall /\ Returned /\ raised # "none") =>
          result = [success |-> FALSE,
                    error |-> "error in " \o raised,
                    segments |-> <<>>]

\* A successful one-speaker call that follows a failed call.
C9_Witness ==
    /\ InFileCall /\ Returned /\ raised = "none"
    /\ prev = "failed"
    /\ result.num_speakers = 1
    /\ Len(result.segments) = 2
    /\ result.segments[1].speaker_label = "Speaker 1"

\* ------------------------------------------------------------------- C10

\* C10: a successful process_audio_chunk call emits one segment per yielded
\* turn, in yield order and however short the turn, each labelled with the
\* model's raw speaker token, and echoes its chunk_index.
C10_ChunkEmitsEveryTurnRaw ==
    InChunkCall =>
        /\ Len(segments) = Len(turns)
        /\ \A j \in 1..Len(segments) :
              /\ segments[j].speaker_label = turns[j].speaker
              /\ segments[j].start_time = turns[j].start
              /\ segments[j].end_time = turns[j].end
        /\ (Returned /\ raised = "none") =>
              /\ result.success
              /\ result.chunk_index = chunk_index
              /\ result.segments = segments

\* A successful chunk call with a reversed turn and a quarter second turn.
C10_Witness ==
    /\ InChunkCall /\ Returned /\ raised = "none"
    /\ chunk_index = 2
    /\ Len(turns) = 2
    /\ turns[1].end < turns[1].start
    /\ turns[2].end - turns[2].start = 1
    /\ Len(result.segments) = 2
    /\ result.segments[1].speaker_label = "SPEAKER_02"
    /\ result.segments[2].speaker_label = "SPEAKER_02"
    /\ result.chunk_index = 2

\* ------------------------------------------------------------------- C11

\* What holds of the model invocations in every state of a process_audio
\* call: one pipeline invocation once the call has reached the model, one
\* embedding invocation per surviving turn and none for a filtered turn, in
\* yield order, and the segments are the surviving turns in that order.
InvocationsMatchSurvivors ==
    (mode = "file" /\ pc # "idle") =>
        LET kept == Survivors(turns, min_segment_duration)
        IN  /\ diar_calls = IF raised \in {"load", "resample"} THEN 0 ELSE 1
            /\ embed_calls # <<>> => diar_calls = 1
            /\ Len(embed_calls) = Len(kept)
            /\ \A j \in 1..Len(embed_calls) : embed_calls[j].turn = kept[j]
            /\ Len(segments) = Len(kept)
            /\ \A j \in 1..Len(segments) :
                  /\ segments[j].start_time = kept[j].start
                  /\ segments[j].end_time = kept[j].end
            /\ (Returned /\ raised = "none") => result.segments = segments

\* A step of process_audio that invokes the embedding model: the pipeline
\* has been invoked before it and is not invoked again, and the step makes
\* one embedding invocation, for the turn it has just been yielded.
EmbeddingFollowsDiarization ==
    (mode = "file" /\ mode' = "file" /\ Len(embed_calls') > Len(embed_calls)) =>
        /\ diar_calls = 1
        /\ diar_calls' = 1
        /\ Len(embed_calls') = Len(embed_calls) + 1
        /\ SubSeq(embed_calls', 1, Len(embed_calls)) = embed_calls
        /\ Len(turns') = Len(turns) + 1
        /\ embed_calls'[Len(embed_calls')].turn = turns'[Len(turns')]

\* C11: in every process_audio call that reaches the model the diarization
\* model is invoked exactly once and before any embedding invocation; the
\* embedding model is then invoked exactly once for each turn that passes
\* the duration filter, in yield order, and never for a filtered turn, so
\* the emitted segments are the surviving turns in yield order.
C11_OneDiarizationThenEmbeddingPerSurvivor ==
    /\ []InvocationsMatchSurvivors
    /\ [][EmbeddingFollowsDiarization]_vars

\* A successful call whose two surviving turns were yielded out of time
\* order: two embedding invocations and two segments, in yield order.
C11_Witness ==
    /\ InFileCall /\ Returned /\ raised = "none"
    /\ diar_calls = 1
    /\ Len(turns) = 2
    /\ turns[1].start > turns[2].start
    /\ Len(embed_calls) = 2
    /\ embed_calls[1].turn = turns[1]
    /\ embed_calls[2].turn = turns[2]
    /\ Len(result.segments) = 2
    /\ result.segments[1].start_time > result.segments[2].start_time

\* ------------------------------------------------------------------- C12

\* The labels "Speaker 1" .. "Speaker n".
LabelsUpTo(n) == {SpeakerLabel(k) : k \in 1..n}

\* What holds of the label map in every state of a process_audio call.
LabelMapIsDense ==
    InFileCall =>
        LET ids == DOMAIN speaker_labels
            n == Cardinality(ids)
        IN  /\ speaker_counter = n + 1
            /\ \A s \in ids, t \in ids :
                  s # t => speaker_labels[s] # speaker_labels[t]
            /\ {speaker_labels[s] : s \in ids} = LabelsUpTo(n)
            /\ \A j \in 1..Len(segments) :
                  segments[j].speaker_label \in LabelsUpTo(n)
            /\ (Returned /\ raised = "none") =>
                  LET used == {result.segments[j].speaker_label :
                                  j \in 1..Len(result.segments)}
                  IN  /\ result.num_speakers = n
                      /\ used \subseteq LabelsUpTo(result.num_speakers)
                      /\ Cardinality(used) <= result.num_speakers

\* A step inside the turn loop keeps the label of every speaker_id that has
\* one.
LabelsNeverChange ==
    (pc = "file_loop") =>
        \A s \in DOMAIN speaker_labels :
            /\ s \in DOMAIN speaker_labels'
            /\ speaker_labels'[s] = speaker_labels[s]

\* C12: after every processed turn of process_audio speaker_counter is the
\* size of the label map plus one, the map is injective and no speaker_id
\* changes its label, and the labels are exactly "Speaker 1" .. "Speaker n"
\* for n the map's size; so in a successful result every segment's label
\* number is in 1..num_speakers and the segments carry at most num_speakers
\* distinct labels.
C12_CounterAndLabelsStayDense ==
    /\ []LabelMapIsDense
    /\ [][LabelsNeverChange]_vars

\* A successful call with two speakers of which only the second one's turn
\* survives the filter: counter 3, map size 2, one segment, "Speaker 2".
C12_Witness ==
    /\ InFileCall /\ Returned /\ raised = "none"
    /\ Len(turns) = 2
    /\ speaker_counter = 3
    /\ Cardinality(DOMAIN speaker_labels) = 2
    /\ result.num_speakers = 2
    /\ Len(result.segments) = 1
    /\ result.segments[1].speaker_label = "Speaker 2"

====
